---- MODULE Spec2Model ----
(***************************************************************************)
(* Model of the order endpoint of order_website_express_nodemailer.js:     *)
(* the catalog tables, the POST /order handler (validation, pricing,       *)
(* order id, mail composition, awaited sendMail, response) and the         *)
(* JavaScript value semantics the handler relies on (truthiness, Number(), *)
(* Math.min/Math.max, NaN propagation, property access on null).           *)
(***************************************************************************)
EXTENDS Integers, Sequences, FiniteSets, TLC

(***************************************************************************)
(* JavaScript values.  Every primitive is a record [t, n, s]: t is the     *)
(* type tag, s the text of a string (or "NaN" for the number NaN) and n    *)
(* the value of a number counted in HALVES, so that the fractional         *)
(* quantity 2.5 is n = 5 and the integer 3 is n = 6.  All the halves used  *)
(* here are exact in IEEE-754 doubles, as are their products with the      *)
(* integer catalog prices.                                                 *)
(***************************************************************************)
Undef == [t |-> "undefined", n |-> 0, s |-> ""]

Null == [t |-> "null", n |-> 0, s |-> ""]

NaN == [t |-> "number", n |-> 0, s |-> "NaN"]

Num(k) == [t |-> "number", n |-> 2 * k, s |-> ""]

Halves(h) == [t |-> "number", n |-> h, s |-> ""]

Str(x) == [t |-> "string", n |-> 0, s |-> x]

Bool(b) == [t |-> "boolean", n |-> IF b THEN 1 ELSE 0, s |-> ""]

IsNaN(v) == v.t = "number" /\ v.s = "NaN"

\* A number that is a mathematical integer (Number.isInteger).
IsInteger(v) == v.t = "number" /\ ~IsNaN(v) /\ v.n % 2 = 0

\* The integer an integral number denotes.
IntOf(v) == v.n \div 2

\* ToBoolean: undefined, null, false, 0, NaN and "" are falsy.
Truthy(v) ==
    CASE v.t = "undefined" -> FALSE
      [] v.t = "null" -> FALSE
      [] v.t = "boolean" -> v.n = 1
      [] v.t = "number" -> ~IsNaN(v) /\ v.n # 0
      [] v.t = "string" -> v.s # ""
      [] OTHER -> TRUE

\* StringToNumber on the strings the model submits: decimal literals parse
\* to their value, the empty string to 0, anything else to NaN.
StringToNumber(x) ==
    CASE x = "" -> Num(0)
      [] x = "5" -> Num(5)
      [] x = "5000" -> Num(5000)
      [] x = "2.5" -> Halves(5)
      [] OTHER -> NaN

\* Number(v): ToNumber of a primitive.
Number(v) ==
    CASE v.t = "number" -> v
      [] v.t = "string" -> StringToNumber(v.s)
      [] v.t = "boolean" -> Num(v.n)
      [] v.t = "null" -> Num(0)
      [] OTHER -> NaN

\* a || b
Or(a, b) == IF Truthy(a) THEN a ELSE b

\* Math.min / Math.max of two numbers: NaN if either argument is NaN.
MathMin(a, b) ==
    IF IsNaN(a) \/ IsNaN(b) THEN NaN ELSE IF a.n <= b.n THEN a ELSE b

MathMax(a, b) ==
    IF IsNaN(a) \/ IsNaN(b) THEN NaN ELSE IF a.n >= b.n THEN a ELSE b

\* a * b and a + b on numbers (NaN propagates); n is in halves.
Mul(a, b) ==
    IF IsNaN(a) \/ IsNaN(b) THEN NaN ELSE Halves((a.n * b.n) \div 2)

Add(a, b) ==
    IF IsNaN(a) \/ IsNaN(b) THEN NaN ELSE Halves(a.n + b.n)

\* JSON.stringify of a number inside res.json: NaN is written as null.
ToJSON(v) == IF IsNaN(v) THEN Null ELSE v

(***************************************************************************)
(* Catalog tables (prices in TWD; product names in English).               *)
(***************************************************************************)
CATALOG ==
    << [id |-> "A01", name |-> "Village chief doll gift pack", price |-> 1890],
       [id |-> "B01", name |-> "Blind-draw badge", price |-> 120],
       [id |-> "C01", name |-> "Village hero bonus card", price |-> 80],
       [id |-> "D01", name |-> "Village chief cane accessory", price |-> 150] >>

SHIPPING ==
    << [id |-> "S-711", name |-> "7-11 store pickup", price |-> 60],
       [id |-> "S-HOME", name |-> "Home delivery", price |-> 130],
       [id |-> "S-INTL", name |-> "International", price |-> 0] >>

PAYMENTS ==
    << [id |-> "P-CARD", name |-> "Credit card"],
       [id |-> "P-COD", name |-> "Cash on delivery"],
       [id |-> "P-INTL", name |-> "International transfer"] >>

\* arr.find(x => x.id === id): <<x>> for the first match, << >> for
\* undefined.  === never matches a value that is not a string.
byId(arr, id) ==
    LET m == SelectSeq(arr, LAMBDA x : id.t = "string" /\ x.id = id.s)
    IN  IF m = << >> THEN << >> ELSE << Head(m) >>

(***************************************************************************)
(* Request bodies.  An element of items is an object {id, qty, price}, the *)
(* value null, or a primitive such as a string (whose properties read as   *)
(* undefined); a missing property is Undef.  buyer is "object" or "null";  *)
(* items that is not an array has isArray = FALSE.                         *)
(***************************************************************************)
Line(id, qty, price) == [t |-> "object", id |-> id, qty |-> qty, price |-> price]

NullLine == [t |-> "null", id |-> Undef, qty |-> Undef, price |-> Undef]

StringLine == [t |-> "string", id |-> Undef, qty |-> Undef, price |-> Undef]

Body(isArray, items, shippingId, paymentId, buyer) ==
    [isArray |-> isArray, items |-> items, shippingId |-> shippingId,
     paymentId |-> paymentId, buyer |-> buyer]

(***************************************************************************)
(* POST /order, synchronous part: validation and pricing.                  *)
(***************************************************************************)
\* Math.max(1, Math.min(999, Number(it.qty || 1)))
clampQty(it) == MathMax(Num(1), MathMin(Num(999), Number(Or(it.qty, Num(1)))))

\* Mutant of orderLine: a price the client supplies is used for the line.
orderLine_clientPrice(prod, it, qty) ==
    LET unit == IF it.price.t = "number" THEN it.price ELSE Num(prod.price)
    IN  [id |-> prod.id, name |-> prod.name, price |-> unit, qty |-> qty,
         lineTotal |-> Mul(unit, qty)]

\* lineTotal = prod.price * qty and the pushed order line.
orderLine(prod, it, qty) ==
    [id |-> prod.id, name |-> prod.name, price |-> Num(prod.price), qty |-> qty,
     lineTotal |-> Mul(Num(prod.price), qty)]

\* One iteration of  for (const it of items)  on the accumulator
\* [thrown, orderLines, itemsTotal], reading the catalog array cat.  Reading
\* it.id of null throws.
loopStep(cat, acc, it) ==
    IF it.t = "null"
    THEN [acc EXCEPT !.thrown = TRUE]
    ELSE LET prod == byId(cat, it.id)
             qty == clampQty(it)
         IN  IF prod = << >>
             THEN acc
             ELSE LET l == orderLine(prod[1], it, qty)
                  IN  [thrown |-> FALSE,
                       orderLines |-> Append(acc.orderLines, l),
                       itemsTotal |-> Add(acc.itemsTotal, l.lineTotal)]

RECURSIVE loopFrom(_, _, _, _)
loopFrom(cat, items, k, acc) ==
    IF k > Len(items) \/ acc.thrown
    THEN acc
    ELSE loopFrom(cat, items, k + 1, loopStep(cat, acc, items[k]))

\* Mutant of shippingFeeOf: the first option's fee when none is resolved.
shippingFeeOf_default(ship) ==
    IF ship = << >> THEN Num(SHIPPING[1].price) ELSE Num(ship[1].price)

\* ship ? ship.price : 0
shippingFeeOf(ship) == IF ship = << >> THEN Num(0) ELSE Num(ship[1].price)

\* x ? byId(table, x) : null
resolve(table, x) == IF Truthy(x) THEN byId(table, x) ELSE << >>

Verdicts == {"EMPTY_CART", "NO_VALID_ITEMS", "THROWN", "OK"}

NoOrder(verdict) ==
    [verdict |-> verdict, orderLines |-> << >>, itemsTotal |-> Num(0),
     ship |-> << >>, pay |-> << >>, shippingFee |-> Num(0), grandTotal |-> Num(0)]

\* The module-level arrays as the process creates them at start.
StartTables == [catalog |-> CATALOG, shipping |-> SHIPPING, payments |-> PAYMENTS]

\* The handler from the destructuring of req.body to grandTotal, reading
\* the module-level arrays as they are when it runs.
orderOfIn(tabs, body) ==
    IF ~body.isArray \/ Len(body.items) = 0
    THEN NoOrder("EMPTY_CART")
    ELSE LET acc == loopFrom(tabs.catalog, body.items, 1,
                        [thrown |-> FALSE, orderLines |-> << >>, itemsTotal |-> Num(0)])
         IN  IF acc.thrown
             THEN NoOrder("THROWN")
             ELSE IF Len(acc.orderLines) = 0
             THEN NoOrder("NO_VALID_ITEMS")
             ELSE LET ship == resolve(tabs.shipping, body.shippingId)
                      pay == resolve(tabs.payments, body.paymentId)
                      shippingFee == shippingFeeOf(ship)
                  IN  [verdict |-> "OK", orderLines |-> acc.orderLines,
                       itemsTotal |-> acc.itemsTotal, ship |-> ship, pay |-> pay,
                       shippingFee |-> shippingFee,
                       grandTotal |-> Add(acc.itemsTotal, shippingFee)]

\* The same computation on the arrays of process start: what a request
\* processed alone gets.
orderOf(body) == orderOfIn(StartTables, body)

\* Mutant of catalogAfterLine: the line is the catalog entry itself
\* (pushed by reference), so writing its lineTotal overwrites the entry.
catalogAfterLine_aliased(cat, l) ==
    [k \in 1 .. Len(cat) |->
        IF cat[k].id = l.id /\ IsInteger(l.lineTotal)
        THEN [cat[k] EXCEPT !.price = IntOf(l.lineTotal)]
        ELSE cat[k]]

\* The catalog array after one order line is pushed: the line is a fresh
\* object that copies prod.id, prod.name and prod.price, and nothing is
\* written to prod.
catalogAfterLine(cat, l) == cat

\* The catalog array after the loop has pushed these order lines.
RECURSIVE catalogAfter(_, _)
catalogAfter(cat, ls) ==
    IF ls = << >> THEN cat ELSE catalogAfter(catalogAfterLine(cat, Head(ls)), Tail(ls))

\* Mutant of makeOrderId: the reading is truncated to a coarser unit.
makeOrderId_coarse(t) == [prefix |-> "GV", ts |-> t \div 2]

\* "GV" + Date.now(): the prefix followed by the decimal clock reading.
makeOrderId(t) == [prefix |-> "GV", ts |-> t]

NoOrderId == [prefix |-> "", ts |-> 0]

\* Composing the mail reads buyer.name, which throws when buyer is null.
composeThrows(body) == body.buyer = "null"

(***************************************************************************)
(* Bounds of the model and the request bodies it submits.                  *)
(***************************************************************************)
NumSlots == 2

MaxLines == 2

MaxClock == 2

Slots == 1 .. NumSlots

\* Raw qty values: 0, -3, 1, 2, 999, 1000, 5000, 2.5, "abc", "5", "2.5", "",
\* true, false, null, missing.
QtyValues ==
    {Num(0), Num(-3), Num(1), Num(2), Num(999), Num(1000), Num(5000), Halves(5),
     Str("abc"), Str("5"), Str("2.5"), Str(""), Bool(TRUE), Bool(FALSE), Null, Undef}

\* Values of a client-supplied price field: missing, or the number 1.
PriceValues == {Undef, Num(1)}

\* The first element of a submitted cart: product A01 with every raw qty,
\* another product, an unknown id, a line carrying a client price, null and
\* a primitive.
Lines ==
    {Line(Str("A01"), q, Undef) : q \in QtyValues}
    \cup {Line(Str("B01"), Num(2), Undef), Line(Str("ZZZ"), Num(5), Undef),
          Line(Str("A01"), Num(2), Num(1)), NullLine, StringLine}

\* The further elements of a submitted cart.
TailLines ==
    {Line(Str("A01"), Num(2), Num(1)), Line(Str("A01"), Halves(5), Undef),
     Line(Str("B01"), Str("abc"), Undef), Line(Str("ZZZ"), Num(5), Undef), NullLine}

\* The carts of at most n elements.
RECURSIVE CartsUpTo(_)
CartsUpTo(n) ==
    IF n = 0
    THEN {<< >>}
    ELSE LET shorter == CartsUpTo(n - 1)
         IN  shorter \cup
             {Append(q, x) : q \in {r \in shorter : Len(r) = n - 1},
                             x \in IF n = 1 THEN Lines ELSE TailLines}

ShippingIds == {Undef, Str("S-711"), Str("S-HOME"), Str("S-XXX")}

PaymentIds == {Undef, Str("P-CARD"), Str("P-XXX")}

Buyers == {"object", "null"}

\* Every body the pricing specification submits: each cart with each
\* shipping and payment selection, each cart with a null buyer, and a body
\* whose items is not an array.
Bodies ==
    {Body(TRUE, items, s, p, "object") :
        items \in CartsUpTo(MaxLines), s \in ShippingIds, p \in PaymentIds}
    \cup {Body(TRUE, items, Undef, Undef, "null") : items \in CartsUpTo(MaxLines)}
    \cup {Body(FALSE, << >>, Undef, Undef, "object")}

\* The bodies the concurrent specification submits: the scenario cart, a cart
\* with a non-numeric qty, an empty cart, a cart of unknown ids only, a cart
\* with a null element, and the scenario cart with buyer null.
SampleBodies ==
    {Body(TRUE, << Line(Str("A01"), Num(2), Undef) >>, Str("S-711"), Undef, "object"),
     Body(TRUE, << Line(Str("B01"), Str("abc"), Undef) >>, Undef, Str("P-CARD"), "object"),
     Body(TRUE, << >>, Undef, Undef, "object"),
     Body(TRUE, << Line(Str("ZZZ"), Num(5), Undef) >>, Undef, Undef, "object"),
     Body(TRUE, << Line(Str("A01"), Num(2), Undef), NullLine >>, Undef, Undef, "object"),
     Body(TRUE, << Line(Str("A01"), Num(2), Undef) >>, Str("S-711"), Undef, "null")}

(***************************************************************************)
(* State.  Each slot is one POST /order request of the process.            *)
(***************************************************************************)
VARIABLES
    now,      \* the reading Date.now() returns
    pc,       \* slot -> "idle" (not yet received), "awaiting" (suspended at
              \*         await transporter.sendMail), "responded"
    req,      \* slot -> the request body
    order,    \* slot -> what validation and pricing computed
    orderId,  \* slot -> the generated order id, NoOrderId if none
    mail,     \* slot -> "none", "pending", "delivered", "failed"
    sends,    \* slot -> number of transporter.sendMail calls made
    errors,   \* slot -> number of console.error calls made
    resp,     \* slot -> the response written to res, NoResp if none yet
    readAt,   \* slot -> the clock reading its Date.now() call returned, -1 if
              \*         the handler made no such call
    tables,   \* the module-level arrays CATALOG, SHIPPING and PAYMENTS
    catalogResp  \* the latest response of GET /catalog, NoCatalogResp if none

vars ==
    << now, pc, req, order, orderId, mail, sends, errors, resp, readAt, tables,
       catalogResp >>

NoCatalogResp == [status |-> 0, catalog |-> << >>, shipping |-> << >>, payments |-> << >>]

\* res.json({ catalog: CATALOG, shipping: SHIPPING, payments: PAYMENTS })
catalogJson(tabs) ==
    [status |-> 200, catalog |-> tabs.catalog, shipping |-> tabs.shipping,
     payments |-> tabs.payments]

MsgEmptyCart == "cart is empty"

MsgNoValidItems == "all items invalid, choose again"

MsgSendFailed == "sending failed, try again later"

NoResp == [status |-> 0, ok |-> FALSE, message |-> "", orderId |-> NoOrderId,
           grandTotal |-> Undef]

\* res.status(code).json({ ok: false, message })
errorResp(code, message) ==
    [status |-> code, ok |-> FALSE, message |-> message, orderId |-> NoOrderId,
     grandTotal |-> Undef]

\* res.json({ ok: true, orderId, grandTotal })
okResp(id, grandTotal) ==
    [status |-> 200, ok |-> TRUE, message |-> "", orderId |-> id,
     grandTotal |-> ToJSON(grandTotal)]

NoBody == Body(FALSE, << >>, Undef, Undef, "object")

Init ==
    /\ now = 0
    /\ pc = [i \in Slots |-> "idle"]
    /\ req = [i \in Slots |-> NoBody]
    /\ order = [i \in Slots |-> NoOrder("EMPTY_CART")]
    /\ orderId = [i \in Slots |-> NoOrderId]
    /\ mail = [i \in Slots |-> "none"]
    /\ sends = [i \in Slots |-> 0]
    /\ errors = [i \in Slots |-> 0]
    /\ resp = [i \in Slots |-> NoResp]
    /\ readAt = [i \in Slots |-> -1]
    /\ tables = StartTables
    /\ catalogResp = NoCatalogResp

\* The handler runs from its entry to its first suspension or response:
\* a validation rejection answers 400; an exception (a null element of
\* items, a null buyer) is caught, logged and answered 500; otherwise the
\* order id is taken from the clock, the mail is composed and sendMail is
\* called, and the handler suspends at the await.
Submit(i, body) ==
    LET o == orderOfIn(tables, body)
    IN  /\ pc[i] = "idle"
        /\ tables' = [tables EXCEPT !.catalog = catalogAfter(@, o.orderLines)]
        /\ req' = [req EXCEPT ![i] = body]
        /\ order' = [order EXCEPT ![i] = o]
        /\ CASE o.verdict = "EMPTY_CART" ->
                  /\ resp' = [resp EXCEPT ![i] = errorResp(400, MsgEmptyCart)]
                  /\ pc' = [pc EXCEPT ![i] = "responded"]
                  /\ UNCHANGED << orderId, mail, sends, errors, readAt >>
             [] o.verdict = "NO_VALID_ITEMS" ->
                  /\ resp' = [resp EXCEPT ![i] = errorResp(400, MsgNoValidItems)]
                  /\ pc' = [pc EXCEPT ![i] = "responded"]
                  /\ UNCHANGED << orderId, mail, sends, errors, readAt >>
             [] o.verdict = "THROWN" ->
                  /\ errors' = [errors EXCEPT ![i] = @ + 1]
                  /\ resp' = [resp EXCEPT ![i] = errorResp(500, MsgSendFailed)]
                  /\ pc' = [pc EXCEPT ![i] = "responded"]
                  /\ UNCHANGED << orderId, mail, sends, readAt >>
             [] o.verdict = "OK" /\ composeThrows(body) ->
                  /\ orderId' = [orderId EXCEPT ![i] = makeOrderId(now)]
                  /\ readAt' = [readAt EXCEPT ![i] = now]
                  /\ errors' = [errors EXCEPT ![i] = @ + 1]
                  /\ resp' = [resp EXCEPT ![i] = errorResp(500, MsgSendFailed)]
                  /\ pc' = [pc EXCEPT ![i] = "responded"]
                  /\ UNCHANGED << mail, sends >>
             [] o.verdict = "OK" /\ ~composeThrows(body) ->
                  /\ orderId' = [orderId EXCEPT ![i] = makeOrderId(now)]
                  /\ readAt' = [readAt EXCEPT ![i] = now]
                  /\ sends' = [sends EXCEPT ![i] = @ + 1]
                  /\ mail' = [mail EXCEPT ![i] = "pending"]
                  /\ pc' = [pc EXCEPT ![i] = "awaiting"]
                  /\ UNCHANGED << errors, resp >>
        /\ UNCHANGED << now, catalogResp >>

\* sendMail resolves: the handler resumes and answers 200.
SendResolved(i) ==
    /\ pc[i] = "awaiting"
    /\ mail' = [mail EXCEPT ![i] = "delivered"]
    /\ resp' = [resp EXCEPT ![i] = okResp(orderId[i], order[i].grandTotal)]
    /\ pc' = [pc EXCEPT ![i] = "responded"]
    /\ UNCHANGED << now, req, order, orderId, sends, errors, readAt, tables, catalogResp >>

\* sendMail rejects: the catch block logs the error and answers 500.
SendRejected(i) ==
    /\ pc[i] = "awaiting"
    /\ mail' = [mail EXCEPT ![i] = "failed"]
    /\ errors' = [errors EXCEPT ![i] = @ + 1]
    /\ resp' = [resp EXCEPT ![i] = errorResp(500, MsgSendFailed)]
    /\ pc' = [pc EXCEPT ![i] = "responded"]
    /\ UNCHANGED << now, req, order, orderId, sends, readAt, tables, catalogResp >>

\* The millisecond clock advances.
Tick ==
    /\ now < MaxClock
    /\ now' = now + 1
    /\ UNCHANGED << pc, req, order, orderId, mail, sends, errors, resp, readAt, tables,
                    catalogResp >>

\* GET /catalog answers with the three arrays.
GetCatalog ==
    /\ catalogResp' = catalogJson(tables)
    /\ UNCHANGED << now, pc, req, order, orderId, mail, sends, errors, resp, readAt,
                    tables >>

\* Concurrent requests of one process.
Next ==
    \/ \E i \in Slots, body \in SampleBodies : Submit(i, body)
    \/ \E i \in Slots : SendResolved(i)
    \/ \E i \in Slots : SendRejected(i)
    \/ Tick
    \/ GetCatalog

Spec == Init /\ [][Next]_vars

\* One request, over every body of Bodies.
NextPricing ==
    \/ \E body \in Bodies : Submit(1, body)
    \/ SendResolved(1)
    \/ SendRejected(1)

SpecPricing == Init /\ [][NextPricing]_vars

(***************************************************************************)
(* Vocabulary of the properties.                                           *)
(***************************************************************************)
Received(i) == pc[i] # "idle"

CatalogIds == {CATALOG[k].id : k \in 1 .. Len(CATALOG)}

\* The position of the catalog entry with this id.
CatalogIndex(id) == CHOOSE k \in 1 .. Len(CATALOG) : CATALOG[k].id = id

CatalogPrice(id) == CATALOG[CatalogIndex(id)].price

\* An element of items that names a catalog product.
KnownLine(l) == l.t = "object" /\ l.id.t = "string" /\ l.id.s \in CatalogIds

\* x is the id of an entry of the table.
Matches(table, x) ==
    x.t = "string" /\ \E k \in 1 .. Len(table) : table[k].id = x.s

\* The bodies that agree with b, element by element, on id and qty and on
\* shippingId, and differ in the client-supplied price of a line, in
\* paymentId or in buyer.
LineTwins(l) ==
    IF l.t = "object" THEN {Line(l.id, l.qty, p) : p \in PriceValues} ELSE {l}

RECURSIVE ItemTwins(_)
ItemTwins(items) ==
    IF items = << >>
    THEN {<< >>}
    ELSE {<< l >> \o rest : l \in LineTwins(Head(items)), rest \in ItemTwins(Tail(items))}

Twins(b) ==
    {Body(b.isArray, items, b.shippingId, p, buyer) :
        items \in ItemTwins(b.items), p \in PaymentIds, buyer \in Buyers}

\* The integer sum of the lineTotal of a sequence of order lines.
RECURSIVE SumLineTotals(_)
SumLineTotals(ls) ==
    IF ls = << >> THEN 0 ELSE IntOf(Head(ls).lineTotal) + SumLineTotals(Tail(ls))

(***************************************************************************)
(* C1.  The validation verdict and the totals of a submission depend only  *)
(* on the (id, qty) pairs of its lines and on shippingId: every body that  *)
(* agrees with the submitted one on these, whatever its client-supplied    *)
(* prices, paymentId and buyer, gets the same verdict, order lines (unit   *)
(* prices, quantities, line totals), itemsTotal, shippingFee and           *)
(* grandTotal, and every unit price is the catalog price of its product.   *)
(***************************************************************************)
C1_TotalsDependOnIdQtyShipping ==
    \A i \in Slots :
        Received(i) =>
            /\ \A c \in Twins(req[i]) :
                   LET o == orderOf(c)
                   IN  /\ o.verdict = order[i].verdict
                       /\ o.orderLines = order[i].orderLines
                       /\ o.itemsTotal = order[i].itemsTotal
                       /\ o.shippingFee = order[i].shippingFee
                       /\ o.grandTotal = order[i].grandTotal
            /\ \A k \in 1 .. Len(order[i].orderLines) :
                   LET l == order[i].orderLines[k]
                   IN  /\ l.id \in CatalogIds
                       /\ l.price = Num(CatalogPrice(l.id))

\* A submission with a client-supplied price on a catalog line was answered 200.
C1_Witness ==
    \E i \in Slots :
        /\ resp[i].status = 200
        /\ \E k \in 1 .. Len(req[i].items) :
               KnownLine(req[i].items[k]) /\ req[i].items[k].price = Num(1)

(***************************************************************************)
(* C2.  For every accepted order the totals are integers, itemsTotal is    *)
(* the sum of the line totals and grandTotal is itemsTotal + shippingFee;  *)
(* the cart [{A01, qty 2}] with shipping S-711 gives 3780, 60 and 3840.    *)
(***************************************************************************)
C2_TotalsExact ==
    \A i \in Slots :
        (Received(i) /\ order[i].verdict = "OK") =>
            LET o == order[i]
            IN  /\ \A k \in 1 .. Len(o.orderLines) : IsInteger(o.orderLines[k].lineTotal)
                /\ IsInteger(o.itemsTotal)
                /\ IntOf(o.itemsTotal) = SumLineTotals(o.orderLines)
                /\ IsInteger(o.grandTotal)
                /\ IntOf(o.grandTotal) = IntOf(o.itemsTotal) + IntOf(o.shippingFee)
                /\ (/\ req[i].items = << Line(Str("A01"), Num(2), Undef) >>
                    /\ req[i].shippingId = Str("S-711"))
                   => (/\ o.itemsTotal = Num(3780)
                       /\ o.shippingFee = Num(60)
                       /\ o.grandTotal = Num(3840))

(***************************************************************************)
(* C3.  A line with a catalog id is never rejected for its qty, and its    *)
(* order line's qty is: 1 for a number below 1, 999 for a number above     *)
(* 999, the number itself inside [1,999], 1 for "abc" and for no qty.      *)
(***************************************************************************)
\* The raw values the claim speaks of, and the qty it states for each.
C3_Covers(raw) == (raw.t = "number" /\ ~IsNaN(raw)) \/ raw = Str("abc") \/ raw = Undef

C3_StatedQty(raw) ==
    IF raw.t = "number"
    THEN IF raw.n < 2 THEN Num(1) ELSE IF raw.n > 2 * 999 THEN Num(999) ELSE raw
    ELSE Num(1)

C3_QtyClamped ==
    \A i \in Slots :
        (/\ Received(i)
         /\ req[i].isArray
         /\ \A k \in 1 .. Len(req[i].items) : req[i].items[k].t # "null") =>
            LET known == SelectSeq(req[i].items, KnownLine)
            IN  /\ known # << >> => order[i].verdict = "OK"
                /\ Len(order[i].orderLines) = Len(known)
                /\ \A k \in 1 .. Len(known) :
                       C3_Covers(known[k].qty) =>
                           order[i].orderLines[k].qty = C3_StatedQty(known[k].qty)

(***************************************************************************)
(* C4.  Every order line of every accepted order has the id of a catalog   *)
(* product, an integer qty in [1,999] and lineTotal = catalog price * qty. *)
(***************************************************************************)
C4_OrderLinesWellFormed ==
    \A i \in Slots :
        (Received(i) /\ order[i].verdict = "OK") =>
            \A k \in 1 .. Len(order[i].orderLines) :
                LET l == order[i].orderLines[k]
                IN  /\ l.id \in CatalogIds
                    /\ IsInteger(l.qty)
                    /\ IntOf(l.qty) \in 1 .. 999
                    /\ l.lineTotal = Num(CatalogPrice(l.id) * IntOf(l.qty))

(***************************************************************************)
(* C5.  A cart with at least one line of a known product id is accepted,   *)
(* and its order is the order of the same cart with every element that     *)
(* names no catalog product removed.                                       *)
(***************************************************************************)
C5_UnknownLinesDropped ==
    \A i \in Slots :
        (/\ Received(i)
         /\ req[i].isArray
         /\ \E k \in 1 .. Len(req[i].items) : KnownLine(req[i].items[k])) =>
            /\ order[i].verdict = "OK"
            /\ order[i] = orderOf([req[i] EXCEPT !.items = SelectSeq(@, KnownLine)])

(***************************************************************************)
(* C6.  Validation rejects in exactly two cases, each with HTTP 400 and    *)
(* ok:false: the empty-cart reason when items is empty or no sequence, the *)
(* no-valid-items reason when items is a non-empty sequence with no line   *)
(* of a catalog id; no other submission is rejected by validation.         *)
(***************************************************************************)
C6_ValidationRejections ==
    \A i \in Slots :
        (pc[i] = "responded") =>
            LET b == req[i]
                empty == ~b.isArray \/ Len(b.items) = 0
                anyKnown == \E k \in 1 .. Len(b.items) : KnownLine(b.items[k])
            IN  /\ empty => resp[i] = errorResp(400, MsgEmptyCart)
                /\ (~empty /\ ~anyKnown) => resp[i] = errorResp(400, MsgNoValidItems)
                /\ (~empty /\ anyKnown) => resp[i].status # 400

(***************************************************************************)
(* C7.  For an order that passed validation: a shippingId that is missing  *)
(* or matches no option gives shippingFee 0, no shipping option and        *)
(* grandTotal = itemsTotal; one that matches gives that option's price;    *)
(* a paymentId that is missing or matches none gives no payment option;    *)
(* no value of shippingId or paymentId changes the verdict, and paymentId  *)
(* changes no total.                                                       *)
(***************************************************************************)
C7_ShippingSelections == ShippingIds \cup {Str(""), Str("S-INTL"), Num(5)}

C7_PaymentSelections == PaymentIds \cup {Str("")}

C7_ShippingPayment ==
    \A i \in Slots :
        (Received(i) /\ order[i].verdict = "OK") =>
            LET o == order[i]
                b == req[i]
            IN  /\ ~Matches(SHIPPING, b.shippingId) =>
                       /\ o.shippingFee = Num(0)
                       /\ o.ship = << >>
                       /\ o.grandTotal = o.itemsTotal
                /\ Matches(SHIPPING, b.shippingId) =>
                       \E k \in 1 .. Len(SHIPPING) :
                           /\ SHIPPING[k].id = b.shippingId.s
                           /\ o.ship = << SHIPPING[k] >>
                           /\ o.shippingFee = Num(SHIPPING[k].price)
                /\ ~Matches(PAYMENTS, b.paymentId) => o.pay = << >>
                /\ \A x \in C7_ShippingSelections, y \in C7_PaymentSelections :
                       LET v == orderOf([b EXCEPT !.shippingId = x, !.paymentId = y])
                       IN  /\ v.verdict = "OK"
                           /\ x = b.shippingId =>
                                  /\ v.orderLines = o.orderLines
                                  /\ v.itemsTotal = o.itemsTotal
                                  /\ v.shippingFee = o.shippingFee
                                  /\ v.grandTotal = o.grandTotal

\* An order with an unknown shippingId and an unknown paymentId was answered 200.
C7_Witness ==
    \E i \in Slots :
        /\ resp[i].status = 200
        /\ req[i].shippingId = Str("S-XXX")
        /\ req[i].paymentId = Str("P-XXX")
        /\ order[i].shippingFee = Num(0)

(***************************************************************************)
(* C8.  A response is emitted only after the send has finished: 200 only   *)
(* after the send succeeded, the 500 of a validated submission only after  *)
(* the send failed, and none while the send is pending.                    *)
(***************************************************************************)
C8_ResponseAfterSend ==
    \A i \in Slots :
        /\ resp[i].status = 200 => mail[i] = "delivered"
        /\ (resp[i].status = 500 /\ order[i].verdict = "OK") => mail[i] = "failed"
        /\ mail[i] = "pending" => resp[i] = NoResp

(***************************************************************************)
(* C9.  A submission calls send at most once: exactly once when it passes  *)
(* validation, never when it is rejected with EMPTY_CART or                *)
(* NO_VALID_ITEMS; a failed send is answered 500 with the generic message. *)
(***************************************************************************)
C9_SendOncePerValidated ==
    \A i \in Slots :
        /\ sends[i] <= 1
        /\ (Received(i) /\ order[i].verdict = "OK") => sends[i] = 1
        /\ (Received(i) /\ order[i].verdict \in {"EMPTY_CART", "NO_VALID_ITEMS"}) =>
               sends[i] = 0
        /\ mail[i] = "failed" => resp[i] = errorResp(500, MsgSendFailed)

(***************************************************************************)
(* C10.  Any two distinct submissions that pass validation have different  *)
(* order ids.                                                              *)
(***************************************************************************)
C10_OrderIdsUnique ==
    \A i, j \in Slots :
        (i # j /\ readAt[i] # -1 /\ readAt[j] # -1) => orderId[i] # orderId[j]

\* C10, amended.  Two distinct submissions that pass validation have
\* different order ids when their ids are generated at different clock
\* readings, and the same order id when generated within the same reading.
C10_OrderIdsUniqueAcrossReadings ==
    \A i, j \in Slots :
        (i # j /\ readAt[i] # -1 /\ readAt[j] # -1) =>
            (orderId[i] = orderId[j]) <=> (readAt[i] = readAt[j])

\* Two submissions in flight together whose ids come from different readings.
C10_Witness ==
    \E i, j \in Slots :
        /\ pc[i] = "awaiting" /\ pc[j] = "awaiting"
        /\ readAt[i] # readAt[j]

(***************************************************************************)
(* C11.  Submissions are independent under any interleaving: no sequence   *)
(* of GET /catalog and POST /order requests changes the catalog, shipping  *)
(* or payment table; every submission's order lines, totals and status     *)
(* code are those it gets when processed alone from process start (given   *)
(* the outcome of its own send), whatever the other submissions did; and   *)
(* a request not yet received can always be processed, and a pending send  *)
(* can always complete or fail, whatever became of the other submissions.  *)
(***************************************************************************)
\* The status code of a submission processed alone, from what validation
\* and pricing compute at process start and the state of its own send;
\* 0 while its send is pending.
C11_AloneStatus(body, sent) ==
    LET v == orderOf(body).verdict
    IN  CASE v \in {"EMPTY_CART", "NO_VALID_ITEMS"} -> 400
          [] v = "THROWN" -> 500
          [] v = "OK" /\ body.buyer = "null" -> 500
          [] v = "OK" /\ body.buyer # "null" /\ sent = "delivered" -> 200
          [] v = "OK" /\ body.buyer # "null" /\ sent = "failed" -> 500
          [] OTHER -> 0

C11_Independent ==
    /\ tables = StartTables
    /\ catalogResp \in {NoCatalogResp, catalogJson(StartTables)}
    /\ \A i \in Slots :
           /\ Received(i) =>
                  /\ order[i] = orderOf(req[i])
                  /\ resp[i].status = C11_AloneStatus(req[i], mail[i])
                  /\ resp[i].status = 200 =>
                         resp[i].grandTotal = ToJSON(orderOf(req[i]).grandTotal)
           /\ pc[i] = "idle" => ENABLED (\E body \in SampleBodies : Submit(i, body))
           /\ pc[i] = "awaiting" => (ENABLED SendResolved(i) /\ ENABLED SendRejected(i))

\* One submission was answered 200 while another one of the same cart
\* failed at send, and GET /catalog was answered.
C11_Witness ==
    \E i, j \in Slots :
        /\ i # j
        /\ req[i] = req[j]
        /\ mail[i] = "failed" /\ resp[i].status = 500
        /\ mail[j] = "delivered" /\ resp[j].status = 200
        /\ catalogResp.status = 200

====
